---------------------------- MODULE Spec2Model ----------------------------
(***************************************************************************)
(* Charney-Eliassen (1949) stationary-wave notebook                        *)
(* (src/Charney_Eliassen_1949/Charney_Eliassen_1949.ipynb).                *)
(*                                                                         *)
(* The notebook is a sequence of cells sharing one global namespace.  Each *)
(* code cell is one action; the globals are the variables.                 *)
(*                                                                         *)
(* Numbers.  A real value is an extended rational <<num, den>> in lowest   *)
(* terms with den >= 0; den = 0 encodes the IEEE specials the code can     *)
(* produce: <<1,0>> = +inf, <<-1,0>> = -inf, <<0,0>> = NaN.  Arithmetic on *)
(* finite values is exact.  Rounding is modelled where it decides a        *)
(* discrete outcome, namely the element count of np.arange: there values   *)
(* are binary floating-point numbers with Prec mantissa bits rounded to    *)
(* nearest-even (binary64 has 53; the model keeps the rounding, at reduced *)
(* width).  A complex value is a pair <<re, im>> of extended rationals.    *)
(* Signed zeros are not distinguished.  The grid builder on its own        *)
(* (SpecGrid) is run in binary64 itself, bit for bit.                      *)
(***************************************************************************)
EXTENDS Integers, Sequences, FiniteSets, TLC

----------------------------------------------------------------------------
(* Bounds of the model *)

\* mantissa bits of the reduced-width binary floating-point format
Prec == 5

\* largest grid size drawn when the grid builder is exercised on its own
MaxGridN == 14

\* largest surface-geopotential sample in the external data set, in units of g
MaxGeo == 1

----------------------------------------------------------------------------
(* Integer helpers *)

Abs(i) == IF i < 0 THEN -i ELSE i

Sign(i) == IF i > 0 THEN 1 ELSE IF i < 0 THEN -1 ELSE 0

RECURSIVE GCD(_, _)
GCD(i, j) == IF j = 0 THEN i ELSE GCD(j, i % j)

RECURSIVE Pow2(_)
Pow2(e) == IF e = 0 THEN 1 ELSE 2 * Pow2(e - 1)

\* ceiling of p/d for d > 0
CeilDiv(p, d) == -((-p) \div d)

----------------------------------------------------------------------------
(* Extended rationals: float64 values up to rounding *)

NaN == <<0, 0>>

Zero == <<0, 1>>

One == <<1, 1>>

\* the value p/d in lowest terms; p/0 is an IEEE special
Rat(p, d) ==
    IF d = 0 THEN <<Sign(p), 0>>
    ELSE LET gg == GCD(Abs(p), Abs(d))
             s  == IF d < 0 THEN -1 ELSE 1
         IN  <<s * (p \div gg), s * (d \div gg)>>

R(i) == <<i, 1>>

IsNaN(a) == a[1] = 0 /\ a[2] = 0

IsInf(a) == a[1] # 0 /\ a[2] = 0

IsFinite(a) == a[2] # 0

RNeg(a) == <<-a[1], a[2]>>

\* IEEE addition: inf + inf = inf, inf - inf = NaN, NaN absorbs
RAdd(a, b) ==
    IF IsInf(a) /\ IsInf(b)
    THEN (IF a[1] = b[1] THEN a ELSE NaN)
    ELSE IF IsFinite(a) /\ IsFinite(b)
    THEN LET gg == GCD(a[2], b[2])
         IN  Rat(a[1] * (b[2] \div gg) + b[1] * (a[2] \div gg),
                 a[2] * (b[2] \div gg))
    ELSE IF IsNaN(a) \/ IsNaN(b) THEN NaN
    ELSE IF IsInf(a) THEN a ELSE b

RSub(a, b) == RAdd(a, RNeg(b))

\* IEEE multiplication: 0 * inf = NaN
RMul(a, b) ==
    LET g1 == GCD(Abs(a[1]), b[2])
        g2 == GCD(Abs(b[1]), a[2])
    IN  IF IsFinite(a) /\ IsFinite(b) /\ a[1] # 0 /\ b[1] # 0
        THEN <<(a[1] \div g1) * (b[1] \div g2), (a[2] \div g2) * (b[2] \div g1)>>
        ELSE Rat(a[1] * b[1], a[2] * b[2])

\* numpy float64 division: x/0 = +-inf, 0/0 = NaN, x/inf = 0, inf/inf = NaN
RDiv(a, b) ==
    IF IsNaN(a) \/ IsNaN(b) THEN NaN
    ELSE IF IsInf(b) THEN (IF IsInf(a) THEN NaN ELSE Zero)
    ELSE IF b[1] = 0 THEN <<Sign(a[1]), 0>>
    ELSE RMul(a, <<Sign(b[1]) * b[2], Abs(b[1])>>)

RAbs(a) == <<Abs(a[1]), a[2]>>

\* a < b on non-NaN values (any comparison with NaN is false)
RLess(a, b) ==
    /\ ~IsNaN(a) /\ ~IsNaN(b)
    /\ IF IsFinite(a) /\ IsFinite(b) THEN a[1] * b[2] < b[1] * a[2]
       ELSE IF IsInf(a) /\ IsInf(b) THEN a[1] < b[1]
       ELSE IF IsInf(a) THEN a[1] < 0
       ELSE b[1] > 0

RGeq(a, b) == ~IsNaN(a) /\ ~IsNaN(b) /\ ~RLess(a, b)

----------------------------------------------------------------------------
(* Binary floating point with Prec mantissa bits, round to nearest even *)

\* the shift t with 2^(Prec-1) <= (p/d) * 2^t < 2^Prec, for p/d > 0
RECURSIVE FlScale(_, _)
FlScale(p, d) ==
    IF p >= d * Pow2(Prec) THEN FlScale(p, 2 * d) - 1
    ELSE IF p < d * Pow2(Prec - 1) THEN FlScale(2 * p, d) + 1
    ELSE 0

\* p/d >= 0 rounded to the nearest integer, ties to even
RoundHalfEven(p, d) ==
    LET fq == p \div d
        rr == 2 * (p % d)
    IN  IF rr > d \/ (rr = d /\ fq % 2 = 1) THEN fq + 1 ELSE fq

\* the floating-point number nearest the finite rational a
Fl(a) ==
    IF ~IsFinite(a) \/ a[1] = 0 THEN a
    ELSE LET p  == Abs(a[1])
             d  == a[2]
             t  == FlScale(p, d)
             mm == IF t >= 0 THEN RoundHalfEven(p * Pow2(t), d)
                   ELSE RoundHalfEven(p, d * Pow2(-t))
         IN  IF t >= 0 THEN Rat(Sign(a[1]) * mm, Pow2(t))
             ELSE Rat(Sign(a[1]) * mm * Pow2(-t), 1)

----------------------------------------------------------------------------
(* Complex values, as numpy's complex128 ufunc loops compute them *)

C(re, im) == <<re, im>>

CZero == <<Zero, Zero>>

\* a float operand of a complex operation is promoted to (a + 0j)
CReal(a) == <<a, Zero>>

CIsFinite(z) == IsFinite(z[1]) /\ IsFinite(z[2])

CIsZero(z) == z[1] = Zero /\ z[2] = Zero

CAdd(y, z) == <<RAdd(y[1], z[1]), RAdd(y[2], z[2])>>

CSub(y, z) == <<RSub(y[1], z[1]), RSub(y[2], z[2])>>

CMul(y, z) ==
    <<RSub(RMul(y[1], z[1]), RMul(y[2], z[2])),
      RAdd(RMul(y[1], z[2]), RMul(y[2], z[1]))>>

\* numpy's complex division (Smith's method); a zero divisor gives
\* (re/0, im/0), that is infinities or NaN, never an exception
CDiv(y, z) ==
    LET in1r == y[1]
        in1i == y[2]
        in2r == z[1]
        in2i == z[2]
    IN  IF RGeq(RAbs(in2r), RAbs(in2i))
        THEN IF in2r = Zero /\ in2i = Zero
             THEN <<RDiv(in1r, Zero), RDiv(in1i, Zero)>>
             ELSE LET rat == RDiv(in2i, in2r)
                      scl == RDiv(One, RAdd(in2r, RMul(in2i, rat)))
                  IN  <<RMul(RAdd(in1r, RMul(in1i, rat)), scl),
                        RMul(RSub(in1i, RMul(in1r, rat)), scl)>>
        ELSE LET rat == RDiv(in2r, in2i)
                 scl == RDiv(One, RAdd(in2i, RMul(in2r, rat)))
             IN  <<RMul(RAdd(RMul(in1r, rat), in1i), scl),
                   RMul(RSub(RMul(in1i, rat), in1r), scl)>>

----------------------------------------------------------------------------
(* Discrete Fourier transform (scipy fft / ifft).  Arrays are 1-based      *)
(* sequences; the element at Python index j is seq[j + 1].  The transform  *)
(* lengths of the model are 1, 2 and 4, each done by the library in one    *)
(* radix pass whose roots of unity 1, -i, -1, i are applied by additions,  *)
(* subtractions and swaps of components, never by a multiplication.        *)

\* (-i) * z and i * z as the radix-4 pass computes them: the components
\* change places and one changes sign
RotM90(z) == <<z[2], RNeg(z[1])>>

Rot90(z) == <<RNeg(z[2]), z[1]>>

\* the radix-2 pass: (c0 + c1, c0 - c1)
pass2(cc) == <<CAdd(cc[1], cc[2]), CSub(cc[1], cc[2])>>

\* the radix-4 pass; forward rotates c1 - c3 by -i, backward by +i
pass4(cc, forward) ==
    LET t2 == CAdd(cc[1], cc[3])
        t1 == CSub(cc[1], cc[3])
        t3 == CAdd(cc[2], cc[4])
        t4 == IF forward THEN RotM90(CSub(cc[2], cc[4]))
              ELSE Rot90(CSub(cc[2], cc[4]))
    IN  <<CAdd(t2, t3), CAdd(t1, t4), CSub(t2, t3), CSub(t1, t4)>>

\* one transform of a complex sequence of length 1, 2 or 4
passAll(cc, forward) ==
    CASE Len(cc) = 1 -> cc
      [] Len(cc) = 2 -> pass2(cc)
      [] Len(cc) = 4 -> pass4(cc, forward)

\* fft(h)[j] = sum_t h[t] exp(-2 pi i j t / len); the real input is
\* promoted to complex with imaginary part 0
fft(hh) == passAll([tt \in 1..Len(hh) |-> CReal(hh[tt])], TRUE)

\* ifft(s)[t] = (1/len) sum_j s[j] exp(+2 pi i j t / len); the factor 1/len
\* multiplies the real and the imaginary part separately
ifft(ss) ==
    LET out == passAll(ss, FALSE)
        fct == RDiv(One, R(Len(ss)))
    IN  [tt \in 1..Len(ss) |-> <<RMul(out[tt][1], fct), RMul(out[tt][2], fct)>>]

real(zz) == [i \in 1..Len(zz) |-> zz[i][1]]

imag(zz) == [i \in 1..Len(zz) |-> zz[i][2]]

----------------------------------------------------------------------------
(* numpy helpers *)

\* a global that no cell has assigned yet
Undef == <<>>

\* np.pi and np.pi**0.5, rounded to the model's floating-point format
Pi == <<25, 8>>

SqrtPi == <<7, 4>>

\* np.sin / np.cos of np.deg2rad(latd) at the latitudes of the model, as
\* floats: sin 60 = 0.866.. rounds to 7/8 at five mantissa bits.  At 0 the
\* library returns 0 and 1 exactly.  At 60 it returns a cosine one unit in
\* the last place above 1/2 (0.5000000000000001), so the quantities derived
\* from it (beta, Ks2, Lx, k, K2) equal no round number exactly; the model
\* takes 1/2 and draws omega, a, u and m such that at 60 no two of these
\* quantities are equal, as in the code (beta = 1 at 60, so the wind 1,
\* for which Ks2 would equal m**2 = 1, is not drawn).
sin(latd) == CASE latd = 0 -> Zero [] latd = 60 -> <<7, 8>>

cos(latd) == CASE latd = 0 -> One [] latd = 60 -> <<1, 2>>

\* the fixed-point unit in which exp is summed
ExpScale == Pow2(16)

\* ExpScale * (1 + q + q^2/2! + ...) for q = p/d >= 0, each term cut to an
\* integer; term is the k-1'th term of the series
RECURSIVE ExpSeries(_, _, _, _)
ExpSeries(p, d, term, kk) ==
    IF term = 0 THEN 0
    ELSE term + ExpSeries(p, d, (term * p) \div (d * kk), kk + 1)

\* np.exp(-q) for q >= 0 (q is x**2/dx_h**2), as the float nearest
\* 1 / exp(q): exp(-0) = 1, exp(-inf) = 0, exp(nan) = nan
ExpNeg(q) ==
    IF IsNaN(q) THEN NaN
    ELSE IF IsInf(q) THEN Zero
    ELSE Fl(Rat(ExpScale, ExpSeries(q[1], q[2], ExpScale, 1)))

\* np.arange(cnt) for an integer cnt
arangeInt(cnt) == [i \in 1..cnt |-> i - 1]

\* number of elements of np.arange(start, stop, step) for floats:
\* ceil((stop - start) / step), each operation rounded
arangeLen(start, stop, step) ==
    LET q == Fl(RDiv(Fl(RSub(stop, start)), step))
        c == CeilDiv(q[1], q[2])
    IN  IF c > 0 THEN c ELSE 0

\* np.arange(start, stop, step): start + i * step, i = 0 .. len - 1
arange(start, stop, step) ==
    [i \in 1..arangeLen(start, stop, step) |-> RAdd(start, RMul(R(i - 1), step))]

\* Python slice start:stop on a sequence of length len, as 0-based indices:
\* negative bounds count from the end, then both are clipped to 0 .. len
SliceBound(b, len) ==
    LET bb == IF b < 0 THEN b + len ELSE b
    IN  IF bb < 0 THEN 0 ELSE IF bb > len THEN len ELSE bb

SliceIndices(start, stop, len) ==
    {i \in 0..(len - 1) : SliceBound(start, len) <= i /\ i < SliceBound(stop, len)}

\* index of the first minimum of a non-empty integer sequence (0-based)
argmin(seq) ==
    CHOOSE i \in 0..(Len(seq) - 1) :
        /\ \A j \in 0..(Len(seq) - 1) : seq[i + 1] <= seq[j + 1]
        /\ \A j \in 0..(i - 1) : seq[j + 1] > seq[i + 1]

RECURSIVE RSumOver(_, _)
RSumOver(ff, S) ==
    IF S = {} THEN Zero
    ELSE LET i == CHOOSE i \in S : \A j \in S : i <= j
         IN  RAdd(ff[i], RSumOver(ff, S \ {i}))

\* mean over the rows `rows` (0-based) of column c (1-based) of a matrix;
\* the mean of no rows is 0/0 = NaN
MeanAxis0(mat, rows, c) ==
    RDiv(RSumOver([i \in rows |-> mat[i + 1][c]], rows), R(Cardinality(rows)))

\* numpy broadcasting of two 1-d shapes
Broadcastable(l1, l2) == l1 = l2 \/ l1 = 1 \/ l2 = 1

BroadcastLen(l1, l2) == IF l1 >= l2 THEN l1 ELSE l2

\* element i (1-based) of a 1-d array broadcast to a longer shape
Bc(seq, i) == IF Len(seq) = 1 THEN seq[1] ELSE seq[i]

----------------------------------------------------------------------------
(* Inputs: the literals the cells assign, and the external data files *)

\* latd (line 54), in degrees
Latitudes == {0, 60}

\* n (line 96); transform lengths with exact roots of unity
GridSizes == {2, 4}

\* u (line 162)
Winds == {R(-1), Zero, R(2)}

\* m (line 165)
MeridionalWavenumbers == {Zero, One}

\* tau (line 177)
DampingTimes == {R(-1), Zero, R(1)}

\* the 'latitude' coordinate of the data file, north to south
LatitudeArrays ==
    { [i \in 1..13 |-> 90 - 5 * (i - 1)],
      [i \in 1..13 |-> 10 - 5 * (i - 1)] }

\* number of longitudes of the data file
LongitudeCounts == {1, 2, 4}

\* rows (0-based) of the data file that carry an extra geopotential amount
SpikeRows == {3, 11}

\* a data file: its latitude coordinate, its longitude count, and a surface
\* geopotential that is g * base at the first longitude (0 elsewhere) plus
\* g * amp on the row spikeRow
DataFiles ==
    [lat : LatitudeArrays, nlon : LongitudeCounts, base : 0..MaxGeo,
     spikeRow : SpikeRows, amp : 1..MaxGeo]

\* the configurations of a run
Configs ==
    [latd : Latitudes, n : GridSizes, g : {R(2)}, H : {R(2)}, a : {R(2)},
     omega : {R(2)}, u : Winds, m : MeridionalWavenumbers,
     tau : DampingTimes, h0 : {R(7)}, dx_h : {R(5)},
     topo : {"gaussian", "world"}, surfAvailable : BOOLEAN,
     z500Available : BOOLEAN, file : DataFiles]

\* ds.variables['srfgeo'][0, row, col] (row 0-based, col 1-based)
srfgeo(cf, row, col) ==
    RMul(cf.g, R((IF col = 1 THEN cf.file.base ELSE 0)
                 + (IF row = cf.file.spikeRow THEN cf.file.amp ELSE 0)))

----------------------------------------------------------------------------
(* State: the notebook's globals, the cell to run next, the error raised *)

VARIABLES cfg, pc, err, latr, f0, beta, Lx, dx, x, x_degrees, ns,
          k, Ks2, K2, r, eps, h, sh, spsi, psi, plotted

constVars == <<latr, f0, beta, Lx, dx, x, x_degrees, ns>>

paramVars == <<k, Ks2, K2, r, eps>>

transferVars == <<h, sh, spsi, psi>>

vars == <<cfg, pc, err, latr, f0, beta, Lx, dx, x, x_degrees, ns,
          k, Ks2, K2, r, eps, h, sh, spsi, psi, plotted>>

NothingAssigned ==
    /\ err = "none"
    /\ latr = Undef /\ f0 = Undef /\ beta = Undef /\ Lx = Undef /\ dx = Undef
    /\ x = Undef /\ x_degrees = Undef /\ ns = Undef
    /\ k = Undef /\ Ks2 = Undef /\ K2 = Undef /\ r = Undef /\ eps = Undef
    /\ h = Undef /\ sh = Undef /\ spsi = Undef /\ psi = Undef
    /\ plotted = <<>>

\* a fresh kernel.  File contents that no cell of the run reads are fixed:
\* the surface geopotential when the Gaussian bump is used, and the whole
\* of the files when the surface file cannot be opened
Init ==
    /\ cfg \in Configs
    /\ cfg.topo = "gaussian" =>
         /\ cfg.surfAvailable
         /\ cfg.file.base = 0 /\ cfg.file.amp = 1 /\ cfg.file.spikeRow = 3
    /\ ~cfg.surfAvailable =>
         /\ cfg.z500Available
         /\ cfg.file.base = 0 /\ cfg.file.amp = 1 /\ cfg.file.spikeRow = 3
         /\ cfg.file.nlon = 4 /\ cfg.file.lat[1] = 90
    /\ pc = "latitude"
    /\ NothingAssigned

----------------------------------------------------------------------------
(* Cell "Define latitude" (lines 54-55) *)

CellLatitude ==
    /\ pc = "latitude"
    /\ latr' = RDiv(RMul(R(cfg.latd), Pi), R(180))
    /\ pc' = "constants"
    /\ UNCHANGED <<cfg, err, f0, beta, Lx, dx, x, x_degrees, ns,
                   paramVars, transferVars, plotted>>

----------------------------------------------------------------------------
(* Cell "Domain and planetary constants" (lines 95-127) *)

\* f0 = 2*omega*np.sin(latr)
Coriolis(cf) == RMul(RMul(R(2), cf.omega), sin(cf.latd))

\* beta = 2.*omega*np.cos(latr)/a
CoriolisGradient(cf) == RDiv(RMul(RMul(R(2), cf.omega), cos(cf.latd)), cf.a)

\* Lx = 2.*np.pi*a*np.cos(latr), a float
Circumference(cf) == Fl(RMul(RMul(RMul(R(2), Pi), cf.a), cos(cf.latd)))

\* dx = Lx/n, a float
GridSpacing(len, n) == Fl(RDiv(len, R(n)))

\* x = np.arange(-Lx/2., Lx/2., dx)
Grid(len, step) == arange(RNeg(RDiv(len, R(2))), RDiv(len, R(2)), step)

\* x_degrees = x*360./Lx
GridDegrees(xx, len) == [i \in 1..Len(xx) |-> RDiv(RMul(xx[i], R(360)), len)]

CellConstants ==
    /\ pc = "constants"
    /\ f0' = Coriolis(cfg)
    /\ beta' = CoriolisGradient(cfg)
    /\ Lx' = Circumference(cfg)
    /\ dx' = GridSpacing(Lx', cfg.n)
    /\ x' = Grid(Lx', dx')
    /\ x_degrees' = GridDegrees(x', Lx')
    /\ ns' = arangeInt(cfg.n)
    /\ pc' = "parameters"
    /\ UNCHANGED <<cfg, err, latr, paramVars, transferVars, plotted>>

----------------------------------------------------------------------------
(* Cell "Model parameters" (lines 161-182) *)

\* k = 2.*np.pi/Lx
ZonalWavenumber(len) == RDiv(RMul(R(2), Pi), len)

\* Ks2 = beta/u : numpy division, u = 0 gives an infinity and a warning
StationaryWavenumber2(bb, uu) == RDiv(bb, uu)

\* K2 = (k*ns)**2. + m**2.
TotalWavenumber2(kk, nn, mm) ==
    [i \in 1..Len(nn) |->
       RAdd(RMul(RMul(kk, R(nn[i])), RMul(kk, R(nn[i]))), RMul(mm, mm))]

\* mutant: the zonal wind is left out of the damping ratio
DampingWithoutWind(rr, kk2, kk, nn, uu) ==
    [i \in 1..Len(nn) |->
       IF i = 1 THEN Zero
       ELSE RDiv(RMul(rr, kk2[i]), RMul(kk, R(nn[i])))]

\* mutant: eps is left at ns*0., the slice assignment is missing
DampingUnset(rr, kk2, kk, nn, uu) == [i \in 1..Len(nn) |-> Zero]

\* eps = ns*0. ; eps[1:n] = r*K2[1:n]/(k*ns[1:n]*u)
Damping(rr, kk2, kk, nn, uu) ==
    [i \in 1..Len(nn) |->
       IF i = 1 THEN Zero
       ELSE RDiv(RMul(rr, kk2[i]), RMul(RMul(kk, R(nn[i])), uu))]

\* r = 1./tau on Python floats raises ZeroDivisionError for tau = 0; the
\* globals assigned before that line keep their new values
CellParameters ==
    /\ pc = "parameters"
    /\ k' = ZonalWavenumber(Lx)
    /\ Ks2' = StationaryWavenumber2(beta, cfg.u)
    /\ K2' = TotalWavenumber2(k', ns, cfg.m)
    /\ IF cfg.tau = Zero
       THEN /\ err' = "ZeroDivisionError"
            /\ pc' = "error"
            /\ UNCHANGED <<r, eps>>
       ELSE /\ r' = RDiv(One, cfg.tau)
            /\ eps' = Damping(r', K2', k', ns, cfg.u)
            /\ pc' = "transfer"
            /\ UNCHANGED err
    /\ UNCHANGED <<cfg, constVars, transferVars, plotted>>

----------------------------------------------------------------------------
(* Topography (lines 198-230) *)

\* half-width of the latitude band, the 5 of iy-5:iy+5 (line 229)
Band == 5

\* h = A*np.exp(-(x)**2/dx_h**2)/(np.pi**(0.5)*dx_h), A = h0*dx_h
gaussian_topography(cf, xx) ==
    [i \in 1..Len(xx) |->
       RDiv(RMul(RMul(cf.h0, cf.dx_h),
                 Fl(ExpNeg(RDiv(RMul(xx[i], xx[i]), RMul(cf.dx_h, cf.dx_h))))),
            RMul(SqrtPi, cf.dx_h))]

\* iy = np.abs(ds.variables['latitude'][:]-latd).argmin()
NearestRow(cf) ==
    argmin([i \in 1..Len(cf.file.lat) |-> Abs(cf.file.lat[i] - cf.latd)])

\* the rows selected by the slice iy-5:iy+5 (0-based)
BandRows(cf) ==
    SliceIndices(NearestRow(cf) - Band, NearestRow(cf) + Band, Len(cf.file.lat))

\* h = ds.variables['srfgeo'][0,iy-5:iy+5,:].mean(axis=0)/g
world_topography(cf) ==
    [c \in 1..cf.file.nlon |->
       RDiv(MeanAxis0([i \in 1..Len(cf.file.lat) |->
                         [cc \in 1..cf.file.nlon |-> srfgeo(cf, i - 1, cc)]],
                      BandRows(cf), c),
            cf.g)]

----------------------------------------------------------------------------
(* Cell "Analytic solution to barotropic vorticity equation" (247-256) *)

\* sh = fft(h) ; sh[0] = 0.
RemoveZonalMean(ss) == [ss EXCEPT ![1] = CZero]

\* one element of H*(K2 - Ks2 - 1j*eps)
Denominator(hh, kk2, ks2, ee) ==
    CMul(CReal(hh), CSub(CReal(RSub(kk2, ks2)), CMul(C(Zero, One), CReal(ee))))

\* spsi = f0*sh/(H*(K2 - Ks2 - 1j*eps)), over the broadcast shape
TransferFunction(ff0, ss, hh, kk2, ks2, ee) ==
    [i \in 1..BroadcastLen(Len(ss), Len(kk2)) |->
       CDiv(CMul(CReal(ff0), Bc(ss, i)),
            Denominator(hh, Bc(kk2, i), ks2, Bc(ee, i)))]

Topography(cf, xx) ==
    IF cf.topo = "gaussian" THEN gaussian_topography(cf, xx)
    ELSE world_topography(cf)

\* Dataset(...) raises when the file cannot be opened; shapes that do not
\* broadcast raise ValueError after h and sh have been assigned
CellTransfer ==
    /\ pc = "transfer"
    /\ IF cfg.topo = "world" /\ ~cfg.surfAvailable
       THEN /\ err' = "OSError"
            /\ pc' = "error"
            /\ UNCHANGED transferVars
       ELSE /\ h' = Topography(cfg, x)
            /\ sh' = RemoveZonalMean(fft(h'))
            /\ IF Broadcastable(Len(sh'), Len(K2))
               THEN /\ spsi' = TransferFunction(f0, sh', cfg.H, K2, Ks2, eps)
                    /\ psi' = real(ifft(spsi'))
                    /\ pc' = "plot"
                    /\ UNCHANGED err
               ELSE /\ err' = "ValueError"
                    /\ pc' = "error"
                    /\ UNCHANGED <<spsi, psi>>
    /\ UNCHANGED <<cfg, constVars, paramVars, plotted>>

----------------------------------------------------------------------------
(* Cell "Plot results" (lines 272-304): the curves drawn, in order.         *)
(* plt.plot raises ValueError when x and y differ in length; the 500 hPa    *)
(* file has the grid of the surface file.                                   *)

CellPlot ==
    /\ pc = "plot"
    /\ IF Len(x_degrees) # Len(h)
       THEN plotted' = <<>> /\ err' = "ValueError" /\ pc' = "error"
       ELSE IF Len(x_degrees) # Len(psi)
       THEN plotted' = <<"topography">> /\ err' = "ValueError" /\ pc' = "error"
       ELSE IF ~cfg.z500Available
       THEN plotted' = <<"topography", "psi">> /\ err' = "OSError" /\ pc' = "error"
       ELSE IF Len(x_degrees) # cfg.file.nlon
       THEN plotted' = <<"topography", "psi">> /\ err' = "ValueError" /\ pc' = "error"
       ELSE plotted' = <<"topography", "psi", "z">> /\ pc' = "done" /\ UNCHANGED err
    /\ UNCHANGED <<cfg, constVars, paramVars, transferVars>>

----------------------------------------------------------------------------
(* The notebook run top to bottom *)

Next ==
    \/ CellLatitude
    \/ CellConstants
    \/ CellParameters
    \/ CellTransfer
    \/ CellPlot

Spec == Init /\ [][Next]_vars

----------------------------------------------------------------------------
(* Binary64 arithmetic, exact.  The grid builder on its own is run on the  *)
(* numbers of the code: a float is the record [sign, mant, exp] of value   *)
(* sign * mant * 2^exp, with sign in {-1, 0, 1} and mant a natural number  *)
(* of at most Mant64 bits, held as a sequence of limbs in base 2^LimbBits, *)
(* lowest limb first, and odd (zero is sign 0, mant <<>>, exp 0).  Every   *)
(* operation computes the exact result and rounds it to nearest, ties to   *)
(* even.  Overflow, subnormals and the sign of zero are not modelled: the  *)
(* grid never comes near them.                                             *)

\* bits of a binary64 significand
Mant64 == 53

\* bits of one limb
LimbBits == 15

Base == Pow2(LimbBits)

Min(i, j) == IF i < j THEN i ELSE j

Max(i, j) == IF i < j THEN j ELSE i

\* limb i of a natural number, zero beyond its length
Limb(a, i) == IF i <= Len(a) THEN a[i] ELSE 0

\* a sequence of cnt zero limbs
ZeroLimbs(cnt) == [i \in 1..cnt |-> 0]

\* without its zero limbs at the high end
RECURSIVE NatNorm(_)
NatNorm(a) ==
    IF a = <<>> THEN a
    ELSE IF a[Len(a)] = 0 THEN NatNorm(SubSeq(a, 1, Len(a) - 1))
    ELSE a

RECURSIVE NatOfInt(_)
NatOfInt(i) == IF i = 0 THEN <<>> ELSE <<i % Base>> \o NatOfInt(i \div Base)

RECURSIVE NatToInt(_)
NatToInt(a) == IF a = <<>> THEN 0 ELSE a[1] + Base * NatToInt(Tail(a))

RECURSIVE AddLimbs(_, _, _, _)
AddLimbs(a, b, i, carry) ==
    IF i > Len(a) /\ i > Len(b)
    THEN (IF carry = 0 THEN <<>> ELSE <<carry>>)
    ELSE LET t == Limb(a, i) + Limb(b, i) + carry
         IN  <<t % Base>> \o AddLimbs(a, b, i + 1, t \div Base)

NatAdd(a, b) == AddLimbs(a, b, 1, 0)

RECURSIVE SubLimbs(_, _, _, _)
SubLimbs(a, b, i, borrow) ==
    IF i > Len(a) THEN <<>>
    ELSE LET t == Limb(a, i) - Limb(b, i) - borrow
         IN  IF t < 0 THEN <<t + Base>> \o SubLimbs(a, b, i + 1, 1)
             ELSE <<t>> \o SubLimbs(a, b, i + 1, 0)

\* a - b for a >= b
NatSub(a, b) == NatNorm(SubLimbs(a, b, 1, 0))

RECURSIVE CmpLimbs(_, _, _)
CmpLimbs(a, b, i) ==
    IF i = 0 THEN 0
    ELSE IF a[i] < b[i] THEN -1
    ELSE IF a[i] > b[i] THEN 1
    ELSE CmpLimbs(a, b, i - 1)

\* -1, 0, 1 as a < b, a = b, a > b
NatCmp(a, b) ==
    IF Len(a) < Len(b) THEN -1
    ELSE IF Len(a) > Len(b) THEN 1
    ELSE CmpLimbs(a, b, Len(a))

RECURSIVE MulLimbs(_, _, _, _)
MulLimbs(a, kk, i, carry) ==
    IF i > Len(a) THEN (IF carry = 0 THEN <<>> ELSE <<carry>>)
    ELSE LET t == a[i] * kk + carry
         IN  <<t % Base>> \o MulLimbs(a, kk, i + 1, t \div Base)

\* a * kk for 0 <= kk < Base
NatMulSmall(a, kk) == IF kk = 0 THEN <<>> ELSE MulLimbs(a, kk, 1, 0)

RECURSIVE NatMulFrom(_, _, _)
NatMulFrom(a, b, i) ==
    IF i > Len(b) THEN <<>>
    ELSE NatAdd(NatNorm(ZeroLimbs(i - 1) \o NatMulSmall(a, b[i])),
                NatMulFrom(a, b, i + 1))

NatMul(a, b) == NatMulFrom(a, b, 1)

\* <<quotient limbs 1..i, remainder>> of limbs 1..i of a by d, 0 < d < Base
RECURSIVE DivLimbs(_, _, _, _)
DivLimbs(a, d, i, rem) ==
    IF i = 0 THEN <<<<>>, rem>>
    ELSE LET t     == rem * Base + a[i]
             lower == DivLimbs(a, d, i - 1, t % d)
         IN  <<Append(lower[1], t \div d), lower[2]>>

NatDivSmall(a, d) ==
    LET qr == DivLimbs(a, d, Len(a), 0)
    IN  <<NatNorm(qr[1]), qr[2]>>

\* a * 2^bits
NatShl(a, bits) ==
    IF a = <<>> THEN a
    ELSE ZeroLimbs(bits \div LimbBits) \o NatMulSmall(a, Pow2(bits % LimbBits))

\* <<a \div 2^bits, whether a bit that is 1 was shifted out>>
NatShr(a, bits) ==
    LET whole == Min(bits \div LimbBits, Len(a))
        qr    == NatDivSmall(SubSeq(a, whole + 1, Len(a)), Pow2(bits % LimbBits))
    IN  <<qr[1], qr[2] # 0 \/ \E i \in 1..whole : a[i] # 0>>

RECURSIVE BitLenInt(_)
BitLenInt(i) == IF i = 0 THEN 0 ELSE 1 + BitLenInt(i \div 2)

NatBitLen(a) ==
    IF a = <<>> THEN 0 ELSE LimbBits * (Len(a) - 1) + BitLenInt(a[Len(a)])

NatIsOdd(a) == a # <<>> /\ a[1] % 2 = 1

RECURSIVE TrailingZerosInt(_)
TrailingZerosInt(i) == IF i % 2 = 1 THEN 0 ELSE 1 + TrailingZerosInt(i \div 2)

\* the number of zero bits at the low end of a # 0
RECURSIVE NatTrailingZeros(_)
NatTrailingZeros(a) ==
    IF a[1] = 0 THEN LimbBits + NatTrailingZeros(Tail(a))
    ELSE TrailingZerosInt(a[1])

F64Zero == [sign |-> 0, mant |-> <<>>, exp |-> 0]

\* the float sg * nn * 2^ee, nn of at most Mant64 bits, in its one form
F64Canon(sg, nn, ee) ==
    IF sg = 0 \/ nn = <<>> THEN F64Zero
    ELSE LET tz == NatTrailingZeros(nn)
         IN  [sign |-> sg, mant |-> NatShr(nn, tz)[1], exp |-> ee + tz]

\* the float nearest sg * (nn + f) * 2^ee, ties to even, where 0 < f < 1 if
\* sticky and f = 0 if not; with sticky, nn has more than Mant64 bits
F64Round(sg, nn, ee, sticky) ==
    LET drop == NatBitLen(nn) - Mant64
    IN  IF drop <= 0 THEN F64Canon(sg, nn, ee)
        ELSE LET shf   == NatShr(nn, drop - 1)
                 half == NatIsOdd(shf[1])
                 qq   == NatShr(shf[1], 1)[1]
                 up   == half /\ (shf[2] \/ sticky \/ NatIsOdd(qq))
             IN  F64Canon(sg, IF up THEN NatAdd(qq, <<1>>) ELSE qq, ee + drop)

F64OfInt(i) == F64Canon(Sign(i), NatOfInt(Abs(i)), 0)

F64Neg(a) == [a EXCEPT !.sign = -a.sign]

F64Abs(a) == [a EXCEPT !.sign = Abs(a.sign)]

\* a + b
F64Add(a, b) ==
    IF a.sign = 0 THEN b
    ELSE IF b.sign = 0 THEN a
    ELSE LET ee == Min(a.exp, b.exp)
             na == NatShl(a.mant, a.exp - ee)
             nb == NatShl(b.mant, b.exp - ee)
             cc == NatCmp(na, nb)
         IN  IF a.sign = b.sign THEN F64Round(a.sign, NatAdd(na, nb), ee, FALSE)
             ELSE IF cc = 0 THEN F64Zero
             ELSE IF cc > 0 THEN F64Round(a.sign, NatSub(na, nb), ee, FALSE)
             ELSE F64Round(b.sign, NatSub(nb, na), ee, FALSE)

F64Sub(a, b) == F64Add(a, F64Neg(b))

\* a * b
F64Mul(a, b) ==
    F64Round(a.sign * b.sign, NatMul(a.mant, b.mant), a.exp + b.exp, FALSE)

\* the largest digit c with c * den <= cur, for cur < den * Base and a den
\* whose top limb has its highest bit set: the quotient of the two top
\* limbs of cur by the top limb of den is that digit or up to 2 more
DivDigit(cur, den) ==
    LET nb  == Len(den)
        est == Min(Base - 1,
                   (Limb(cur, nb + 1) * Base + Limb(cur, nb)) \div den[nb])
    IN  IF NatCmp(NatMulSmall(den, est), cur) <= 0 THEN est
        ELSE IF NatCmp(NatMulSmall(den, est - 1), cur) <= 0 THEN est - 1
        ELSE est - 2

\* long division: <<quotient limbs, remainder>> of the limbs i.. of num
\* by den
RECURSIVE DivFrom(_, _, _)
DivFrom(num, den, i) ==
    IF i > Len(num) - Len(den) + 1
    THEN <<<<>>, NatNorm(SubSeq(num, i, Len(num)))>>
    ELSE LET prev == DivFrom(num, den, i + 1)
             cur  == NatNorm(<<num[i]>> \o prev[2])
             dg   == DivDigit(cur, den)
         IN  <<<<dg>> \o prev[1], NatSub(cur, NatMulSmall(den, dg))>>

\* <<num \div den, whether a remainder is left>> for den # 0
NatDivMod(num, den) ==
    LET sft == LimbBits - BitLenInt(den[Len(den)])
        qr  == DivFrom(NatShl(num, sft), NatShl(den, sft), 1)
    IN  <<NatNorm(qr[1]), qr[2] # <<>>>>

\* a / b for b # 0: the quotient of the significands is developed to at
\* least Mant64 + 2 bits, and what is left below them is sticky
F64Div(a, b) ==
    IF a.sign = 0 THEN F64Zero
    ELSE LET kk == Max(0, NatBitLen(b.mant) + Mant64 + 2 - NatBitLen(a.mant))
             qr == NatDivMod(NatShl(a.mant, kk), b.mant)
         IN  F64Round(a.sign * b.sign, qr[1], a.exp - kk - b.exp, qr[2])

\* a < b
F64Less(a, b) == F64Sub(a, b).sign < 0

\* the integer ceil(a), for a of small magnitude
F64Ceil(a) ==
    IF a.sign = 0 THEN 0
    ELSE IF a.exp >= 0 THEN a.sign * NatToInt(NatShl(a.mant, a.exp))
    ELSE LET shf == NatShr(a.mant, -a.exp)
         IN  IF a.sign > 0 THEN NatToInt(shf[1]) + (IF shf[2] THEN 1 ELSE 0)
             ELSE -NatToInt(shf[1])

\* np.arange(start, stop, step) on floats: the length is
\* ceil((stop - start)/step); the first two elements are start and
\* start + step, the others start + i*delta with delta the difference of
\* the first two
arange64(start, stop, step) ==
    LET len   == Max(0, F64Ceil(F64Div(F64Sub(stop, start), step)))
        next  == F64Add(start, step)
        delta == F64Sub(next, start)
    IN  [i \in 1..len |->
           IF i = 1 THEN start
           ELSE IF i = 2 THEN next
           ELSE F64Add(start, F64Mul(F64OfInt(i - 1), delta))]

\* dx = Lx/n
GridSpacing64(ll, nn) == F64Div(ll, F64OfInt(nn))

\* x = np.arange(-Lx/2., Lx/2., dx)
Grid64(ll, dd) ==
    arange64(F64Div(F64Neg(ll), F64OfInt(2)), F64Div(ll, F64OfInt(2)), dd)

\* x_degrees = x*360./Lx
GridDegrees64(xx, ll) ==
    [i \in 1..Len(xx) |-> F64Div(F64Mul(xx[i], F64OfInt(360)), ll)]

----------------------------------------------------------------------------
(* The grid builder on its own: lines 119-127 applied in binary64 to the   *)
(* whole numbers Lx of one binade and to every even n up to MaxGridN       *)

GridFloats == {F64OfInt(mant) : mant \in Pow2(Prec - 1)..(Pow2(Prec) - 1)}

GridInit ==
    /\ \E nn \in {i \in 1..MaxGridN : i % 2 = 0} :
         cfg = [latd |-> 0, n |-> nn, g |-> R(2), H |-> R(2), a |-> R(2),
                omega |-> R(2), u |-> R(2), m |-> Zero, tau |-> R(1),
                h0 |-> R(7), dx_h |-> R(5), topo |-> "gaussian",
                surfAvailable |-> TRUE, z500Available |-> TRUE,
                file |-> [lat |-> [i \in 1..13 |-> 90 - 5 * (i - 1)],
                          nlon |-> 4, base |-> 0, spikeRow |-> 3, amp |-> 1]]
    /\ Lx \in GridFloats
    /\ pc = "grid" /\ err = "none"
    /\ latr = Undef /\ f0 = Undef /\ beta = Undef /\ dx = Undef
    /\ x = Undef /\ x_degrees = Undef /\ ns = Undef
    /\ k = Undef /\ Ks2 = Undef /\ K2 = Undef /\ r = Undef /\ eps = Undef
    /\ h = Undef /\ sh = Undef /\ spsi = Undef /\ psi = Undef
    /\ plotted = <<>>

GridBuild ==
    /\ pc = "grid"
    /\ dx' = GridSpacing64(Lx, cfg.n)
    /\ x' = Grid64(Lx, dx')
    /\ x_degrees' = GridDegrees64(x', Lx)
    /\ ns' = arangeInt(cfg.n)
    /\ pc' = "grid_done"
    /\ UNCHANGED <<cfg, err, latr, f0, beta, Lx, paramVars, transferVars, plotted>>

GridNext == GridBuild

SpecGrid == GridInit /\ [][GridNext]_vars

----------------------------------------------------------------------------
(* Properties *)

\* u != 0 and tau > 0
WellPosed == cfg.u # Zero /\ RLess(Zero, cfg.tau)

\* the transfer cell ran to its end
Transferred == spsi # Undef

\* a topography has been produced and holds no NaN
FiniteTopography == h # Undef /\ \A i \in 1..Len(h) : IsFinite(h[i])

\* y / z by the textbook formula y * conj(z) / |z|^2
CDivTextbook(y, z) ==
    LET d2 == RAdd(RMul(z[1], z[1]), RMul(z[2], z[2]))
    IN  <<RDiv(RAdd(RMul(y[1], z[1]), RMul(y[2], z[2])), d2),
          RDiv(RSub(RMul(y[2], z[1]), RMul(y[1], z[2])), d2)>>

\* the response coefficient of index j as the specification writes it, from
\* the inputs: k_j = 2 pi j / Lx, K2_j = k_j^2 + m^2, Ks2 = beta / u,
\* eps_j = K2_j / (tau k_j u), psi_j = f0 h_j / (H (K2_j - Ks2 - i eps_j))
StatedResponse(j) ==
    LET kj   == RDiv(RMul(RMul(R(2), Pi), R(j)), Lx)
        K2j  == RAdd(RMul(kj, kj), RMul(cfg.m, cfg.m))
        Ks2c == RDiv(beta, cfg.u)
        epsj == RDiv(K2j, RMul(RMul(cfg.tau, kj), cfg.u))
        hj   == fft(h)[j + 1]
        den  == <<RMul(cfg.H, RSub(K2j, Ks2c)), RNeg(RMul(cfg.H, epsj))>>
    IN  CDivTextbook(<<RMul(f0, hj[1]), RMul(f0, hj[2])>>, den)

\* C1: for a topography of length n and u != 0, tau > 0, every response
\* coefficient of index j = 1 .. n-1 equals
\* f0 * h_hat[j] / (H * (K2[j] - Ks2 - i eps[j])) with K2, Ks2 and eps as the
\* specification defines them
C1_TransferMatchesFormula ==
    (Transferred /\ Len(h) = cfg.n /\ WellPosed) =>
        \A j \in 1..(cfg.n - 1) : spsi[j + 1] = StatedResponse(j)

\* C1 witness: a four-point run with a finite non-zero response coefficient
\* at a wind other than 1
C1_Witness ==
    /\ Transferred /\ Len(h) = cfg.n /\ WellPosed /\ cfg.n = 4
    /\ cfg.u = R(2)
    /\ \A j \in 1..3 : CIsFinite(spsi[j + 1]) /\ ~CIsZero(spsi[j + 1])

\* C2: for a real topography the inverse transform of the response has zero
\* imaginary part at every grid point (the adjusted spectrum is Hermitian-
\* symmetric), so that taking the real part discards nothing (stated here
\* for four grid points, where the indices 1 and 3 are a conjugate pair)
C2_HermitianResponse ==
    (Transferred /\ Len(h) = cfg.n /\ WellPosed /\ cfg.n = 4
       /\ \A i \in 1..Len(spsi) : CIsFinite(spsi[i])) =>
        \A i \in 1..Len(spsi) : imag(ifft(spsi))[i] = Zero

\* C3: for u != 0 and tau > 0 and any m, the j = 0 coefficient of the
\* response spectrum handed to the inverse transform is exactly zero
C3_ZeroMeanResponse ==
    (Transferred /\ WellPosed) => spsi[1] = CZero

\* C4: for u != 0 and tau > 0, the denominator H*(K2[j] - Ks2 - i eps[j]) is
\* non-zero for every j = 1 .. n-1, eps[j] being non-zero
C4_NoPole ==
    (eps # Undef /\ WellPosed) =>
        \A j \in 1..(cfg.n - 1) :
            /\ eps[j + 1] # Zero /\ IsFinite(eps[j + 1])
            /\ ~CIsZero(Denominator(cfg.H, K2[j + 1], Ks2, eps[j + 1]))

\* C4 witness: resonance K2[j] = Ks2 at an index j >= 1
C4_Witness ==
    /\ eps # Undef /\ WellPosed
    /\ \E j \in 1..(cfg.n - 1) : K2[j + 1] = Ks2

\* C5: with zonal wind u = 0 the parameter cell fails; no Ks2, eps or result
\* holding NaN or an infinity is produced
C5_ZeroWindFails ==
    (cfg.u = Zero /\ pc \notin {"latitude", "constants", "parameters"}) =>
        /\ pc = "error"
        /\ Ks2 = Undef /\ eps = Undef /\ psi = Undef

\* C6: with tau <= 0 the parameter cell fails; no eps and no result is
\* produced from such a tau
C6_NonPositiveDampingFails ==
    (~RLess(Zero, cfg.tau) /\ pc \notin {"latitude", "constants", "parameters"}) =>
        /\ pc = "error"
        /\ eps = Undef /\ psi = Undef

\* C7: a topography whose length differs from n makes the transfer cell
\* fail without a result, and a result, when produced, has n values
C7_LengthMismatchFails ==
    /\ (h # Undef /\ Len(h) # cfg.n /\ FiniteTopography /\ WellPosed) =>
           (pc = "error" /\ psi = Undef)
    /\ psi # Undef => Len(psi) = cfg.n

\* C8: for every positive even n and positive Lx the grid has exactly n
\* coordinates, the first -Lx/2, consecutive ones Lx/n apart (to within
\* 2^-40 of dx, the floating-point tolerance), and none reaches +Lx/2
C8_GridHasNPoints ==
    pc = "grid_done" =>
        /\ Len(x) = cfg.n
        /\ x[1] = F64Neg(F64Div(Lx, F64OfInt(2)))
        /\ \A i \in 1..(Len(x) - 1) :
               F64Less(F64Abs(F64Sub(F64Sub(x[i + 1], x[i]), dx)),
                       [dx EXCEPT !.exp = @ - 40])
        /\ \A i \in 1..Len(x) : F64Less(x[i], F64Div(Lx, F64OfInt(2)))

\* C9: at latitude 0 (f0 = 0) the result is zero at every grid point for
\* every topography and every u != 0, tau > 0
C9_EquatorZero ==
    (cfg.latd = 0 /\ WellPosed /\ psi # Undef /\ FiniteTopography) =>
        \A i \in 1..Len(psi) : psi[i] = Zero

\* the rows iy-5 .. iy+5 that exist in the file
CentredBand(cf) ==
    {i \in 0..(Len(cf.file.lat) - 1) :
        NearestRow(cf) - Band <= i /\ i <= NearestRow(cf) + Band}

\* C10: the external topography is the mean over the rows iy-5 .. iy+5,
\* centred on the row iy nearest the target latitude, divided by g (stated
\* here for a row iy with five rows on each side of it in the file)
C10_CentredBandMean ==
    (cfg.topo = "world" /\ h # Undef
       /\ NearestRow(cfg) - Band >= 0
       /\ NearestRow(cfg) + Band <= Len(cfg.file.lat) - 1) =>
        h = [c \in 1..cfg.file.nlon |->
               RDiv(MeanAxis0([i \in 1..Len(cfg.file.lat) |->
                                 [cc \in 1..cfg.file.nlon |-> srfgeo(cfg, i - 1, cc)]],
                              CentredBand(cfg), c),
                    cfg.g)]

\* C11: in every run in which a step fails, the run has aborted before a
\* result was produced and before anything was drawn: at no time of a run
\* are an error, a result and drawn curves found together (stated here for
\* u != 0, tau > 0 and a topography of length n, where the step that can
\* still fail is the reading of the 500 hPa file in the plot cell)
C11_AbortBeforeResult ==
    []((err # "none" /\ WellPosed /\ h # Undef /\ Len(h) = cfg.n) =>
          (psi = Undef /\ plotted = <<>>))

=============================================================================
